---- MODULE Spec2Model ----
(***************************************************************************)
(* The task orchestration and persistence engine of the AI Test            *)
(* Orchestrator: src/orchestrator/core.py (AgentOrchestrator) and          *)
(* src/orchestrator/storage.py (OrchestratorStorage), with the pre-flight  *)
(* check of src/cli/main.py.                                               *)
(*                                                                         *)
(* A run of execute_project_creation is a coroutine: it is modelled as a   *)
(* sequence of steps per project (run[p].pc), so that runs of different    *)
(* projects interleave.  The analysis (a language-model call), the real    *)
(* workers and the SQLite writes are the environment: their outcomes are   *)
(* chosen nondeterministically.                                            *)
(***************************************************************************)
EXTENDS Integers, Sequences, FiniteSets, TLC

VARIABLES
    active_projects,  \* AgentOrchestrator.active_projects: id -> ProjectInfo
    store_projects,   \* table projects: id -> row
    store_tasks,      \* table tasks: task id -> row
    run,              \* per project id: the execute_project_creation call
    outcome,          \* per project id: what the last call gave its caller
    budget            \* how many more calls and failed writes may happen (MaxEvents)

vars == <<active_projects, store_projects, store_tasks, run, outcome, budget>>

----------------------------------------------------------------------------
(* Bounds and input sets *)

\* what the environment does in one behaviour: calls of create_new_project
\* and execute_project_creation, and writes to the database that fail
\* (save_project or save_task returns False)
MaxEvents == 3

\* the same for the runs of two stored projects (SpecInterleaved): a call for
\* each, or calls and failed writes of one
MaxInterleavedEvents == 2

\* values of str(uuid.uuid4())[:8]
ProjectIds == {"p1", "p2"}

\* paths are strings, modelled as sequences of characters
OrchestratorRoot == <<"/", "o">>

OutputPaths == { <<"/", "o">>, <<"/", "o", "/", "t">>, <<"/", "t">> }

PENDING == "pending"

IN_PROGRESS == "in_progress"

COMPLETED == "completed"

FAILED == "failed"

TaskStatus == {PENDING, IN_PROGRESS, COMPLETED, FAILED}

\* AgentOrchestrator.available_agents
available_agents == {"api_agent", "devops_agent", "parser_agent"}

\* entries of analysis["task_sequence"]: the three the analysis prompt asks
\* for, and one naming an agent the registry does not hold ("UI and Database
\* agents will be added later")
ParseSpec == [agent |-> "parser_agent", operation |-> "parse_api_specification",
              dependencies |-> <<>>]

CreateStructure == [agent |-> "api_agent", operation |-> "create_project_structure",
                    dependencies |-> <<"parse_api_specification">>]

DockerSetup == [agent |-> "devops_agent", operation |-> "create_docker_setup",
                dependencies |-> <<"create_project_structure">>]

UiTests == [agent |-> "ui_agent", operation |-> "create_ui_tests",
            dependencies |-> <<>>]

TaskInfos == {ParseSpec, CreateStructure, DockerSetup, UiTests}

\* the task sequences an analysis response carries: none (a response without
\* the key "task_sequence" plans like the empty sequence), the two the prompt
\* asks for, and sequences with the unregistered agent first, in the middle
\* and last
Plans ==
    { <<>>,
      <<CreateStructure, DockerSetup>>,
      <<ParseSpec, CreateStructure, DockerSetup>>,
      <<UiTests, DockerSetup>>,
      <<CreateStructure, UiTests, DockerSetup>>,
      <<ParseSpec, UiTests>> }

\* a save either commits (TRUE) or fails inside the try block (FALSE)
SaveOutcomes == BOOLEAN

----------------------------------------------------------------------------
(* Values *)

\* AgentTask.result after __post_init__: the empty dict
EmptyResult == [operation |-> "", status |-> "", message |-> "",
                parsed_data |-> "", files |-> {}]

\* datetime.now().isoformat(): the time of create_new_project, and a later
\* time
CreatedAt == "2025-01-01T00:00:00"

LaterAt == "2025-01-02T00:00:00"

\* no parsed data: None, or a missing key
NoParsedData == ""

\* AgentTask.error_message = None
NoError == ""

\* AgentTask.completed_at = None
NoTime == ""

NoOutcome == [kind |-> "none"]

\* no stored records (the snapshot a call that is not running holds)
NoSnapshot == [project |-> <<>>, tasks |-> {}]

\* a call of execute_project_creation: its position (pc), its locals (tasks,
\* idx: the loop's position in tasks, results, parsed_data) and, for the
\* properties, what it did: saves[i] counts the save_task calls for task i,
\* fallbacks holds the tasks whose worker raised, before is what the store
\* held for the project when the call began.  After the call the locals
\* stay as the call left them (pc = "idle") until the next call begins.
IdleRun == [pc |-> "idle", tasks |-> <<>>, idx |-> 0, parsed_data |-> NoParsedData,
            results |-> <<>>, saves |-> <<>>, fallbacks |-> {},
            before |-> NoSnapshot]

\* a TaskId without the project id: "task-{i + 1}"
TaskIdWithoutProject(project_id, i) == <<"", i>>

\* AgentTask.id: f"{project.id}-task-{i + 1}"
TaskId(project_id, i) == <<project_id, i>>

\* a dict that is empty (falsy in Python)
EmptyDict == [empty |-> TRUE]

Falsy(d) == d \in {EmptyDict, EmptyResult}

\* a mapping-typed column: json.dumps(d) if d else None
NULL == <<"null">>

JsonColumn(d) == IF Falsy(d) THEN NULL ELSE <<"json", d>>

\* json.loads(col) if col else {}
LoadResultColumn(col) == IF col = NULL THEN EmptyResult ELSE col[2]

\* Python values a metadata mapping can hold beside strings and None: a tuple
\* and the list of the same items
PyTuple == "('smoke', 'api')"

PyList == "['smoke', 'api']"

\* the JSON text of both
JsonArray == "[\"smoke\", \"api\"]"

\* json.dumps of a value: a tuple and a list are written as an array; a
\* string and None are written as themselves (a JSON string, null)
JsonText(v) == IF v \in {PyTuple, PyList} THEN JsonArray ELSE v

\* json.loads of a value: an array is read as a list
JsonValue(text) == IF text = JsonArray THEN PyList ELSE text

\* json.dumps / json.loads of a mapping with string keys
json_dumps(d) == [k \in DOMAIN d |-> JsonText(d[k])]

json_loads(text) == [k \in DOMAIN text |-> JsonValue(text[k])]

\* the metadata column: json.dumps(project.metadata) if project.metadata else None
MetadataColumn(d) == IF Falsy(d) THEN NULL ELSE <<"json", json_dumps(d)>>

\* json.loads(row['metadata']) if row['metadata'] else {}
LoadMetadataColumn(col) == IF col = NULL THEN EmptyDict ELSE json_loads(col[2])

\* dict assignment d[k] = v / INSERT OR REPLACE by primary key
Put(d, k, v) == [x \in (DOMAIN d) \cup {k} |-> IF x = k THEN v ELSE d[x]]

----------------------------------------------------------------------------
(* OrchestratorStorage *)

ProjectRow(project) ==
    [id |-> project.id,
     name |-> project.name,
     type |-> project.type,
     language |-> project.language,
     output_path |-> project.output_path,
     status |-> project.status,
     created_at |-> project.created_at,
     updated_at |-> project.updated_at,
     metadata |-> MetadataColumn(project.metadata)]

\* a save_project with INSERT OR IGNORE: a row with the id is left as it is
save_project_keeps_row(projects, project, ok) ==
    IF ok /\ project.id \notin DOMAIN projects
    THEN Put(projects, project.id, ProjectRow(project)) ELSE projects

\* the projects table after save_project(project); ok = FALSE is the except
\* branch, which returns False and writes nothing
save_project(projects, project, ok) ==
    IF ok THEN Put(projects, project.id, ProjectRow(project)) ELSE projects

TaskRow(task) ==
    [id |-> task.id,
     project_id |-> task.parameters.project_id,
     agent_type |-> task.agent_type,
     operation |-> task.operation,
     parameters |-> <<"json", task.parameters>>,
     status |-> task.status,
     created_at |-> task.created_at,
     completed_at |-> task.completed_at,
     result |-> JsonColumn(task.result),
     error_message |-> task.error_message]

\* a save_task whose failure leaves the status column of a stored row written
save_task_partial(tasks, task, ok) ==
    IF ok THEN Put(tasks, task.id, TaskRow(task))
    ELSE IF task.id \in DOMAIN tasks
         THEN [tasks EXCEPT ![task.id].status = task.status]
         ELSE tasks

\* the tasks table after save_task(task)
save_task(tasks, task, ok) ==
    IF ok THEN Put(tasks, task.id, TaskRow(task)) ELSE tasks

\* load_project_tasks(project_id), as the set of its rows
load_project_tasks(tasks, project_id) ==
    { tasks[t] : t \in { x \in DOMAIN tasks : tasks[x].project_id = project_id } }

\* load_project found no row: None
NotFound == [found |-> FALSE]

\* a load_project that leaves the status to the default of ProjectInfo
load_project_default_status(projects, project_id) ==
    IF project_id \notin DOMAIN projects THEN NotFound
    ELSE LET row == projects[project_id]
         IN  [id |-> row.id,
              name |-> row.name,
              type |-> row.type,
              language |-> row.language,
              output_path |-> row.output_path,
              created_at |-> row.created_at,
              updated_at |-> row.updated_at,
              status |-> PENDING,
              metadata |-> LoadMetadataColumn(row.metadata)]

\* load_project(project_id): the ProjectInfo built from the row, or None.  An
\* enum member is modelled by its value: ProjectType(row['type']) of a value
\* that save_project wrote is the member it was written from.
load_project(projects, project_id) ==
    IF project_id \notin DOMAIN projects THEN NotFound
    ELSE LET row == projects[project_id]
         IN  [id |-> row.id,
              name |-> row.name,
              type |-> row.type,
              language |-> row.language,
              output_path |-> row.output_path,
              created_at |-> row.created_at,
              updated_at |-> row.updated_at,
              status |-> row.status,
              metadata |-> LoadMetadataColumn(row.metadata)]

Restrict(f, S) == [x \in S |-> f[x]]

\* the projects table after "DELETE FROM projects WHERE id = ?"
delete_project_rows(projects, project_id) ==
    Restrict(projects, DOMAIN projects \ {project_id})

\* a delete_project without "DELETE FROM tasks WHERE project_id = ?"
delete_project_keeps_tasks(store, project_id, ok) ==
    IF ok
    THEN [projects |-> delete_project_rows(store.projects, project_id),
          tasks |-> store.tasks]
    ELSE store

\* the tables after delete_project(project_id): both DELETE statements and
\* the commit, or (ok = FALSE) the except branch, where nothing was committed
delete_project(store, project_id, ok) ==
    IF ok
    THEN [projects |-> delete_project_rows(store.projects, project_id),
          tasks |-> Restrict(store.tasks,
                        { t \in DOMAIN store.tasks :
                            store.tasks[t].project_id # project_id })]
    ELSE store

\* what delete_project returns: True after the commit, False from the except
\* branch
delete_project_returns(store, project_id, ok) == ok

\* the rows of a table
Rows(table) == { table[k] : k \in DOMAIN table }

\* a "SELECT column, 1 ... GROUP BY column": every group counts as one
GroupPresent(rows, column) ==
    [v \in { row[column] : row \in rows } |-> 1]

\* "SELECT column, COUNT(*) as count FROM table GROUP BY column" as the dict
\* get_statistics builds from it
GroupCount(rows, column) ==
    [v \in { row[column] : row \in rows } |->
        Cardinality({ row \in rows : row[column] = v })]

\* stats as get_statistics initialises it
NoStatistics ==
    [total_projects |-> 0,
     projects_by_status |-> <<>>,
     projects_by_type |-> <<>>,
     projects_by_language |-> <<>>,
     total_tasks |-> 0,
     tasks_by_status |-> <<>>]

\* get_statistics(); ok = FALSE is a connection that cannot be opened: the
\* except branch logs and the initial stats are returned
get_statistics(projects, tasks, ok) ==
    IF ok
    THEN [total_projects |-> Cardinality(Rows(projects)),
          projects_by_status |-> GroupCount(Rows(projects), "status"),
          projects_by_type |-> GroupCount(Rows(projects), "type"),
          projects_by_language |-> GroupCount(Rows(projects), "language"),
          total_tasks |-> Cardinality(Rows(tasks)),
          tasks_by_status |-> GroupCount(Rows(tasks), "status")]
    ELSE NoStatistics

----------------------------------------------------------------------------
(* Inputs of create_new_project *)

\* api_spec_file = None
NoSpecFile == ""

\* the arguments (name, project_type, language, output_path, api_spec_file)
\* the calls are made with: every ProjectType, every ProjectLanguage, with
\* and without a specification, outside, at and under the orchestrator's
\* directory
CreateArgs ==
    { [name |-> "demo", type |-> "api", language |-> "java",
       output_path |-> <<"/", "t">>, api_spec_file |-> NoSpecFile],
      [name |-> "shop", type |-> "full", language |-> "python",
       output_path |-> <<"/", "o", "/", "t">>, api_spec_file |-> "spec.yaml"],
      [name |-> "demo", type |-> "ui", language |-> "java",
       output_path |-> <<"/", "o">>, api_spec_file |-> NoSpecFile] }

----------------------------------------------------------------------------
(* src/cli/main.py: the pre-flight check of `project create` *)

\* str.startswith
StartsWith(s, prefix) ==
    Len(s) >= Len(prefix) /\ SubSeq(s, 1, Len(prefix)) = prefix

\* project_path.startswith(orchestrator_path)
CliRejects(output_path) == StartsWith(output_path, OrchestratorRoot)

----------------------------------------------------------------------------
(* AgentOrchestrator: pure parts *)

\* ProjectInfo(...) as create_new_project builds it
ProjectInfo(id, name, type, language, output_path, api_spec_file) ==
    [id |-> id,
     name |-> name,
     type |-> type,
     language |-> language,
     output_path |-> output_path,
     created_at |-> CreatedAt,
     updated_at |-> CreatedAt,
     status |-> PENDING,
     metadata |-> [api_spec_file |-> api_spec_file]]

\* AgentTask(...) as create_task_plan builds it from entry i of the sequence
AgentTask(project, task_info, i) ==
    [id |-> TaskId(project.id, i),
     agent_type |-> task_info.agent,
     operation |-> task_info.operation,
     parameters |->
        [project_id |-> project.id,
         project_name |-> project.name,
         project_type |-> project.type,
         language |-> project.language,
         output_path |-> project.output_path,
         dependencies |-> task_info.dependencies,
         spec_file_path |->
            IF task_info.agent = "parser_agent"
               /\ project.metadata.api_spec_file # NoSpecFile
            THEN project.metadata.api_spec_file ELSE NoSpecFile,
         parsed_data |-> NoParsedData],
     status |-> PENDING,
     created_at |-> CreatedAt,
     completed_at |-> NoTime,
     result |-> EmptyResult,
     error_message |-> NoError]

create_task_plan(project, task_sequence) ==
    [i \in 1..Len(task_sequence) |-> AgentTask(project, task_sequence[i], i)]

\* the loop's "if task.agent_type == 'api_agent' and parsed_data"
InjectParsedData(task, parsed_data) ==
    IF task.agent_type = "api_agent" /\ parsed_data # NoParsedData
    THEN [task EXCEPT !.parameters.parsed_data = parsed_data]
    ELSE task

\* the loop's "if task.agent_type == 'parser_agent' and result.get('parsed_data')"
NextParsedData(task, result, parsed_data) ==
    IF task.agent_type = "parser_agent" /\ result.parsed_data # NoParsedData
    THEN result.parsed_data
    ELSE parsed_data

\* execute_task: the if/elif chain reaches a worker for these agent types,
\* and raises ValueError for every other
Dispatchable(agent_type) ==
    agent_type \in {"api_agent", "devops_agent", "parser_agent"}

UnknownAgentError(agent_type) == "Unknown agent type: " \o agent_type

AnalysisError == "Error generating Anthropic response"

\* create_task_plan's task_info["agent"] for an entry without that key
PlanError == "KeyError: 'agent'"

\* the exceptions the analysis and planning steps raise
PlanningErrors == {AnalysisError, PlanError}

\* an except branch that saves the project without marking it failed
ProjectNotMarked(project) == project

File(output_path, name) == <<output_path, name>>

StubResult(operation, message, parsed_data, files) ==
    [operation |-> operation, status |-> "completed", message |-> message,
     parsed_data |-> parsed_data, files |-> files]

_simulate_parser_agent_task(task) ==
    IF task.operation = "parse_api_specification"
    THEN StubResult(task.operation, "Simulated API specification parsing",
                    "Sample API", {})
    ELSE StubResult(task.operation, "Completed " \o task.operation, NoParsedData, {})

_simulate_api_agent_task(task) ==
    CASE task.operation = "create_project_structure" ->
            StubResult(task.operation,
                "Created " \o task.parameters.language \o " "
                    \o task.parameters.project_type \o " project structure",
                NoParsedData,
                { File(task.parameters.output_path, "pom.xml"),
                  File(task.parameters.output_path, "src/test/java"),
                  File(task.parameters.output_path, "src/main/resources") })
      [] task.operation = "generate_tests" ->
            StubResult(task.operation, "Generated basic API tests", NoParsedData,
                { File(task.parameters.output_path, "src/test/java/ApiTests.java") })
      [] OTHER ->
            StubResult(task.operation, "Completed " \o task.operation, NoParsedData, {})

_simulate_devops_agent_task(task) ==
    IF task.operation = "setup_environment"
    THEN StubResult(task.operation, "Environment setup completed", NoParsedData,
            { File(task.parameters.output_path, "Dockerfile"),
              File(task.parameters.output_path, "docker-compose.yml") })
    ELSE StubResult(task.operation, "Completed " \o task.operation, NoParsedData, {})

\* the fallback each _execute_*_agent_task takes in its except branch
SimulatedResult(task) ==
    CASE task.agent_type = "parser_agent" -> _simulate_parser_agent_task(task)
      [] task.agent_type = "api_agent" -> _simulate_api_agent_task(task)
      [] task.agent_type = "devops_agent" -> _simulate_devops_agent_task(task)

\* what a real worker's execute_operation can do: raise, or return a mapping;
\* a parser's mapping may carry parsed_data
WorkerResult(task, parsed_data) ==
    [operation |-> task.operation, status |-> "completed", message |-> "worker",
     parsed_data |-> parsed_data, files |-> {}]

WorkerOutcomes(task) ==
    { [raises |-> TRUE, result |-> EmptyResult] }
    \cup { [raises |-> FALSE, result |-> WorkerResult(task, pd)] :
            pd \in IF task.agent_type = "parser_agent"
                   THEN {NoParsedData, "spec endpoints"} ELSE {NoParsedData} }

\* a dispatch without the except branch: a worker that raised leaves no result
DispatchWithoutFallback(task, worker) == worker.result

\* _execute_parser_agent_task, _execute_api_agent_task, _execute_devops_agent_task:
\* the worker's result, or the simulation when the worker raised
DispatchResult(task, worker) ==
    IF worker.raises THEN SimulatedResult(task) ELSE worker.result

\* an execute_task that stores the result but leaves the status as it was
TaskCompletedStatusKept(task, result) == [task EXCEPT !.result = result]

\* execute_task, try branch
TaskCompleted(task, result) ==
    [task EXCEPT !.status = COMPLETED, !.completed_at = LaterAt, !.result = result]

\* an except branch that records the exception text but leaves the status
TaskFailedStatusKept(task, error) == [task EXCEPT !.error_message = error]

\* an execute_task that marks the task Failed but drops the exception text
TaskFailedTextDropped(task, error) == [task EXCEPT !.status = FAILED]

\* execute_task, except branch
TaskFailed(task, error) ==
    [task EXCEPT !.status = FAILED, !.error_message = error]

\* execute_project_creation, step 4
FinalStatus(project) ==
    IF project.status # FAILED THEN COMPLETED ELSE project.status

\* "project.updated_at = datetime.now().isoformat()", in the same branch
FinalUpdatedAt(project) ==
    IF project.status # FAILED THEN LaterAt ELSE project.updated_at

CountCompleted(tasks) ==
    Cardinality({ i \in DOMAIN tasks : tasks[i].status = COMPLETED })

\* the mapping execute_project_creation returns
Report(project, tasks, results, parsed_data) ==
    [kind |-> "returned",
     project_id |-> project.id,
     status |-> project.status,
     tasks_completed |-> CountCompleted(tasks),
     total_tasks |-> Len(tasks),
     results |-> results,
     parsed_data |-> parsed_data]

Raised(error) == [kind |-> "raised", error |-> error]

\* execute_task, first statement
TaskStarted(task) == [task EXCEPT !.status = IN_PROGRESS]

\* execute_project_creation, except branch: the project object
ProjectFailed(project) == [project EXCEPT !.status = FAILED, !.updated_at = LaterAt]

\* a loop that swallows the exception of a task and takes the next task
RunGoesOnAfterRaise(r) == [r EXCEPT !.pc = "loop", !.idx = @ + 1]

\* the call after an exception left execute_task: it propagates through the
\* loop to the except branch, which re-raises; the call is over
RunAfterRaise(r) == [r EXCEPT !.pc = "idle", !.before = NoSnapshot]

\* the call after execute_project_creation returned its report
RunAfterReturn(r) == [r EXCEPT !.pc = "idle", !.before = NoSnapshot]

\* a loop that passes over the task after the one that returned
NextIndexSkips(r, task) == r.idx + 2

\* the loop after execute_task returned: "if task.status == FAILED: break"
\* leaves the loop, otherwise the next task is taken
NextIndex(r, task) ==
    IF task.status = FAILED THEN Len(r.tasks) + 1 ELSE r.idx + 1

\* what the store holds for one project
StoredOf(projects, tasks, project_id) ==
    [project |-> IF project_id \in DOMAIN projects
                 THEN <<projects[project_id]>> ELSE <<>>,
     tasks |-> load_project_tasks(tasks, project_id)]

\* the ids the read operations are called with: those of projects, and one
\* that create_new_project never gave
QueriedIds == ProjectIds \cup {"p0"}

CountStatus(rows, status) == Cardinality({ row \in rows : row.status = status })

\* a get_project_status without "if project_id not in self.active_projects":
\* the lookup raises KeyError
get_project_status_unchecked(projects, tasks, project_id) ==
    IF project_id \notin DOMAIN projects
    THEN [found |-> FALSE, kind |-> "raised", error |-> "KeyError"]
    ELSE [found |-> TRUE, project |-> projects[project_id]]

\* get_project_status(project_id): None for an id that is not in
\* active_projects, else the project, its stored tasks and their counts
get_project_status(projects, tasks, project_id) ==
    IF project_id \notin DOMAIN projects THEN NotFound
    ELSE LET project_tasks == load_project_tasks(tasks, project_id)
         IN  [found |-> TRUE,
              project |-> projects[project_id],
              tasks |-> project_tasks,
              summary |->
                [total_tasks |-> Cardinality(project_tasks),
                 completed |-> CountStatus(project_tasks, COMPLETED),
                 failed |-> CountStatus(project_tasks, FAILED),
                 pending |-> CountStatus(project_tasks, PENDING)]]

\* load_all_projects(): the ProjectInfo of every row
load_all_projects(projects) ==
    { load_project(projects, id) : id \in DOMAIN projects }

\* list_projects(): asdict of every value of active_projects
list_projects(projects) == Rows(projects)

----------------------------------------------------------------------------
(* Actions *)

Init ==
    /\ active_projects = <<>>
    /\ store_projects = <<>>
    /\ store_tasks = <<>>
    /\ run = [p \in ProjectIds |-> IdleRun]
    /\ outcome = [p \in ProjectIds |-> NoOutcome]
    /\ budget = MaxEvents

\* the failed writes among the save outcomes oks
Faults(oks) == Cardinality({ i \in DOMAIN oks : ~oks[i] })

\* the step is a call (calls = 1) or not (0) and makes the writes whose
\* outcomes are oks
Spends(call, oks) ==
    /\ call + Faults(oks) <= budget
    /\ budget' = budget - call - Faults(oks)

\* `project create` (src/cli/main.py): it rejects a path inside the
\* orchestrator (CliRejects); otherwise it calls create_new_project with a
\* keyword, project_config, that the method does not take, and reports the
\* TypeError.  Either way the orchestrator and the store stay as they are.
CliCreateProject(output_path) ==
    /\ CliRejects(output_path) \in BOOLEAN
    /\ UNCHANGED vars

\* get_project_status(project_id): it reads active_projects and the tasks
\* table and assigns nothing
GetProjectStatus(project_id) ==
    /\ get_project_status(active_projects, store_tasks, project_id).found \in BOOLEAN
    /\ UNCHANGED vars

\* get_statistics(): it reads the two tables and writes nothing
GetStatistics(ok) ==
    /\ get_statistics(store_projects, store_tasks, ok).total_projects \in Nat
    /\ UNCHANGED vars

\* create_new_project; id is the value uuid4 gave.  A call whose id is that
\* of a project with a call of execute_project_creation in flight is left out.
create_new_project(id, name, type, language, output_path, api_spec_file, ok) ==
    /\ Spends(1, <<ok>>)
    /\ run[id].pc = "idle"
    /\ LET project == ProjectInfo(id, name, type, language, output_path, api_spec_file)
       IN  /\ active_projects' = Put(active_projects, id, project)
           /\ store_projects' = save_project(store_projects, project, ok)
    /\ run' = [run EXCEPT ![id] = IdleRun]
    /\ outcome' = [outcome EXCEPT ![id] = NoOutcome]
    /\ UNCHANGED store_tasks

\* execute_project_creation(project) up to the await of the analysis
StartRun(p) ==
    /\ p \in DOMAIN active_projects
    /\ run[p].pc = "idle"
    /\ Spends(1, <<>>)
    /\ active_projects' = [active_projects EXCEPT ![p].status = IN_PROGRESS]
    /\ run' = [run EXCEPT ![p] =
                [IdleRun EXCEPT !.pc = "analysis",
                                !.before = StoredOf(store_projects, store_tasks, p)]]
    /\ outcome' = [outcome EXCEPT ![p] = NoOutcome]
    /\ UNCHANGED <<store_projects, store_tasks>>

\* analyze_project_requirements or create_task_plan raises error: the except
\* branch of execute_project_creation marks the project failed, saves it and
\* re-raises
AnalysisRaises(p, error, okP) ==
    /\ run[p].pc = "analysis"
    /\ Spends(0, <<okP>>)
    /\ LET project == ProjectFailed(active_projects[p])
       IN  /\ active_projects' = [active_projects EXCEPT ![p] = project]
           /\ store_projects' = save_project(store_projects, project, okP)
    /\ run' = [run EXCEPT ![p] = RunAfterRaise(@)]
    /\ outcome' = [outcome EXCEPT ![p] = Raised(error)]
    /\ UNCHANGED store_tasks

\* the analysis returns task_sequence; create_task_plan; the loop begins
AnalysisReturns(p, task_sequence) ==
    /\ run[p].pc = "analysis"
    /\ run' = [run EXCEPT ![p] =
                [@ EXCEPT !.pc = "loop",
                          !.tasks = create_task_plan(active_projects[p], task_sequence),
                          !.idx = 1,
                          !.saves = [i \in 1..Len(task_sequence) |-> 0]]]
    /\ UNCHANGED <<active_projects, store_projects, store_tasks, outcome, budget>>

\* after the last task: step 4 of execute_project_creation and its return
Finalize(p, okP) ==
    /\ run[p].pc = "loop"
    /\ run[p].idx > Len(run[p].tasks)
    /\ Spends(0, <<okP>>)
    /\ LET r == run[p]
           project == [active_projects[p] EXCEPT
                            !.status = FinalStatus(active_projects[p]),
                            !.updated_at = FinalUpdatedAt(active_projects[p])]
       IN  /\ active_projects' = [active_projects EXCEPT ![p] = project]
           /\ store_projects' = save_project(store_projects, project, okP)
           /\ outcome' = [outcome EXCEPT ![p] =
                            Report(project, r.tasks, r.results, r.parsed_data)]
           /\ run' = [run EXCEPT ![p] = RunAfterReturn(r)]
    /\ UNCHANGED store_tasks

\* the next task of "for task in tasks", for an agent type with a worker:
\* execute_task up to the await of the worker
BeginTask(p) ==
    /\ run[p].pc = "loop"
    /\ run[p].idx <= Len(run[p].tasks)
    /\ LET r == run[p]
           task == TaskStarted(InjectParsedData(r.tasks[r.idx], r.parsed_data))
       IN  /\ Dispatchable(task.agent_type)
           /\ run' = [run EXCEPT ![p] =
                        [r EXCEPT !.pc = "worker", !.tasks[r.idx] = task]]
    /\ UNCHANGED <<active_projects, store_projects, store_tasks, outcome, budget>>

\* the next task, for an agent type without a worker: execute_task raises
\* ValueError inside its try, its except branch saves the task as failed and
\* re-raises, and the except branch of execute_project_creation marks the
\* project failed, saves it and re-raises
UnknownAgentTask(p, okT, okP) ==
    /\ run[p].pc = "loop"
    /\ run[p].idx <= Len(run[p].tasks)
    /\ Spends(0, <<okT, okP>>)
    /\ LET r == run[p]
           task == TaskStarted(InjectParsedData(r.tasks[r.idx], r.parsed_data))
           error == UnknownAgentError(task.agent_type)
           failed == TaskFailed(task, error)
           project == ProjectFailed(active_projects[p])
       IN  /\ ~Dispatchable(task.agent_type)
           /\ store_tasks' = save_task(store_tasks, failed, okT)
           /\ active_projects' = [active_projects EXCEPT ![p] = project]
           /\ store_projects' = save_project(store_projects, project, okP)
           /\ outcome' = [outcome EXCEPT ![p] = Raised(error)]
           /\ run' = [run EXCEPT ![p] =
                        RunAfterRaise([r EXCEPT !.tasks[r.idx] = failed,
                                                !.saves[r.idx] = @ + 1])]

\* the worker of the task in progress returns or raises (worker): the rest of
\* execute_task and of the loop body
WorkerStep(p, worker, okT) ==
    /\ run[p].pc = "worker"
    /\ Spends(0, <<okT>>)
    /\ LET r == run[p]
           result == DispatchResult(r.tasks[r.idx], worker)
           task == TaskCompleted(r.tasks[r.idx], result)
       IN  /\ worker \in WorkerOutcomes(r.tasks[r.idx])
           /\ store_tasks' = save_task(store_tasks, task, okT)
           /\ active_projects' =
                IF task.status = FAILED
                THEN [active_projects EXCEPT ![p].status = FAILED]
                ELSE active_projects
           /\ run' = [run EXCEPT ![p] =
                [r EXCEPT !.pc = "loop",
                          !.tasks[r.idx] = task,
                          !.saves[r.idx] = @ + 1,
                          !.fallbacks = IF worker.raises THEN @ \cup {r.idx} ELSE @,
                          !.results = Append(@, result),
                          !.parsed_data = NextParsedData(task, result, @),
                          !.idx = NextIndex(r, task)]]
    /\ UNCHANGED <<store_projects, outcome>>

AllWorkerOutcomes ==
    UNION { WorkerOutcomes([agent_type |-> i.agent, operation |-> i.operation]) :
                i \in TaskInfos }

Next ==
    \/ \E output_path \in OutputPaths : CliCreateProject(output_path)
    \/ \E project_id \in QueriedIds : GetProjectStatus(project_id)
    \/ \E ok \in SaveOutcomes : GetStatistics(ok)
    \/ \E id \in ProjectIds, a \in CreateArgs, ok \in SaveOutcomes :
            create_new_project(id, a.name, a.type, a.language, a.output_path,
                               a.api_spec_file, ok)
    \/ \E p \in ProjectIds : StartRun(p)
    \/ \E p \in ProjectIds, error \in PlanningErrors, okP \in SaveOutcomes :
            AnalysisRaises(p, error, okP)
    \/ \E p \in ProjectIds, task_sequence \in Plans : AnalysisReturns(p, task_sequence)
    \/ \E p \in ProjectIds : BeginTask(p)
    \/ \E p \in ProjectIds, okT \in SaveOutcomes, okP \in SaveOutcomes :
            UnknownAgentTask(p, okT, okP)
    \/ \E p \in ProjectIds, worker \in AllWorkerOutcomes, okT \in SaveOutcomes :
            WorkerStep(p, worker, okT)
    \/ \E p \in ProjectIds, okP \in SaveOutcomes : Finalize(p, okP)

Spec == Init /\ [][Next]_vars

\* a step of the call of execute_project_creation for project p
RunStep(p) ==
    \/ \E error \in PlanningErrors, okP \in SaveOutcomes : AnalysisRaises(p, error, okP)
    \/ \E task_sequence \in Plans : AnalysisReturns(p, task_sequence)
    \/ BeginTask(p)
    \/ \E okT \in SaveOutcomes, okP \in SaveOutcomes : UnknownAgentTask(p, okT, okP)
    \/ \E worker \in AllWorkerOutcomes, okT \in SaveOutcomes : WorkerStep(p, worker, okT)
    \/ \E okP \in SaveOutcomes : Finalize(p, okP)

\* every awaited call (the analysis, a worker) returns or raises, and the
\* event loop then resumes the coroutine that awaited it
SpecFair == Spec /\ \A p \in ProjectIds : WF_vars(RunStep(p))

\* delete_project(project_id) called on the store the orchestrator uses, at
\* any moment between the steps of its calls
DeleteStoredProject(project_id, ok) ==
    /\ Spends(1, <<ok>>)
    /\ LET after == delete_project([projects |-> store_projects,
                                    tasks |-> store_tasks], project_id, ok)
       IN  /\ store_projects' = after.projects
           /\ store_tasks' = after.tasks
    /\ UNCHANGED <<active_projects, run, outcome>>

\* list_projects(): it reads active_projects, never the store
ListProjects ==
    /\ list_projects(active_projects) \subseteq Rows(active_projects)
    /\ UNCHANGED vars

NextWithDelete ==
    \/ Next
    \/ ListProjects
    \/ \E project_id \in ProjectIds, ok \in SaveOutcomes :
            DeleteStoredProject(project_id, ok)

\* the orchestrator, and deletions from its store
SpecWithDelete == Init /\ [][NextWithDelete]_vars

\* Planning alone: two projects that create_new_project made from the same
\* arguments and stored, and the steps of execute_project_creation up to the
\* plan (the analysis and create_task_plan)
InitPlanning ==
    /\ \E a \in CreateArgs :
            active_projects =
                [id \in ProjectIds |->
                    ProjectInfo(id, a.name, a.type, a.language, a.output_path,
                                a.api_spec_file)]
    /\ store_projects = [id \in ProjectIds |-> ProjectRow(active_projects[id])]
    /\ store_tasks = <<>>
    /\ run = [p \in ProjectIds |-> IdleRun]
    /\ outcome = [p \in ProjectIds |-> NoOutcome]
    /\ budget = MaxEvents

NextPlanning ==
    \/ \E p \in ProjectIds : StartRun(p)
    \/ \E p \in ProjectIds, error \in PlanningErrors, okP \in SaveOutcomes :
            AnalysisRaises(p, error, okP)
    \/ \E p \in ProjectIds, task_sequence \in Plans : AnalysisReturns(p, task_sequence)

SpecPlanning == InitPlanning /\ [][NextPlanning]_vars

\* Runs of two projects.  create_new_project made and stored both, the first
\* without and the second with a specification file.
InitInterleaved ==
    /\ active_projects =
            [id \in ProjectIds |->
                IF id = "p1"
                THEN ProjectInfo(id, "demo", "api", "java", <<"/", "t">>, NoSpecFile)
                ELSE ProjectInfo(id, "shop", "full", "python", <<"/", "t">>,
                                 "spec.yaml")]
    /\ store_projects = [id \in ProjectIds |-> ProjectRow(active_projects[id])]
    /\ store_tasks = <<>>
    /\ run = [p \in ProjectIds |-> IdleRun]
    /\ outcome = [p \in ProjectIds |-> NoOutcome]
    /\ budget = MaxInterleavedEvents

\* the task sequences of these runs: the two the prompt asks for, one with
\* the unregistered agent, and one in which a task comes before the task it
\* names in its dependencies
InterleavedPlans ==
    { <<CreateStructure, DockerSetup>>,
      <<ParseSpec, CreateStructure, DockerSetup>>,
      <<ParseSpec, UiTests>>,
      <<DockerSetup, CreateStructure>> }

\* execute_project_creation is called for either project, and the steps of
\* the two calls interleave at their awaits
NextInterleaved ==
    \/ \E p \in ProjectIds : StartRun(p)
    \/ \E p \in ProjectIds, error \in PlanningErrors, okP \in SaveOutcomes :
            AnalysisRaises(p, error, okP)
    \/ \E p \in ProjectIds, task_sequence \in InterleavedPlans :
            AnalysisReturns(p, task_sequence)
    \/ \E p \in ProjectIds : BeginTask(p)
    \/ \E p \in ProjectIds, okT \in SaveOutcomes, okP \in SaveOutcomes :
            UnknownAgentTask(p, okT, okP)
    \/ \E p \in ProjectIds, worker \in AllWorkerOutcomes, okT \in SaveOutcomes :
            WorkerStep(p, worker, okT)
    \/ \E p \in ProjectIds, okP \in SaveOutcomes : Finalize(p, okP)

SpecInterleaved == InitInterleaved /\ [][NextInterleaved]_vars

----------------------------------------------------------------------------
(* OrchestratorStorage called directly *)

ProjectTypes == {"api", "ui", "full"}

ProjectLanguages == {"java", "python"}

\* metadata mappings: the empty one, one as create_new_project builds it, and
\* one that holds a tuple
SavedMetadata ==
    { EmptyDict, [api_spec_file |-> "spec.yaml"], [tags |-> PyTuple] }

\* the projects save_project is called with: for the first id every
\* combination of type, language and status with every metadata mapping, for
\* the second id one project
SavedProjects ==
    { [id |-> "p1", name |-> "demo", type |-> t, language |-> l,
       output_path |-> <<"/", "t">>, created_at |-> CreatedAt,
       updated_at |-> LaterAt, status |-> st, metadata |-> md] :
            t \in ProjectTypes, l \in ProjectLanguages, st \in TaskStatus,
            md \in SavedMetadata }
    \cup { ProjectInfo("p2", "shop", "full", "python", <<"/", "t">>, "spec.yaml") }

\* the tasks save_task is called with: the first task of either project as
\* execute_task leaves it, completed or failed
SavedTasks ==
    LET task(id) == AgentTask(ProjectInfo(id, "demo", "api", "java",
                                          <<"/", "t">>, NoSpecFile),
                              CreateStructure, 1)
    IN  { TaskCompleted(task("p1"), SimulatedResult(task("p1"))),
          TaskFailed(task("p1"), UnknownAgentError("ui_agent")),
          TaskCompleted(task("p2"), SimulatedResult(task("p2"))) }

\* what the last call of the storage gave its caller
StorageReturned(op, project_id, value) ==
    [p \in ProjectIds |->
        IF p = project_id THEN [kind |-> op, value |-> value] ELSE NoOutcome]

SaveProject(project, ok) ==
    /\ store_projects' = save_project(store_projects, project, ok)
    /\ outcome' = StorageReturned("save_project", project.id, ok)
    /\ UNCHANGED <<active_projects, store_tasks, run, budget>>

SaveTask(task, ok) ==
    /\ store_tasks' = save_task(store_tasks, task, ok)
    /\ outcome' = StorageReturned("save_task", task.parameters.project_id, ok)
    /\ UNCHANGED <<active_projects, store_projects, run, budget>>

DeleteProject(project_id, ok) ==
    LET store == [projects |-> store_projects, tasks |-> store_tasks]
        after == delete_project(store, project_id, ok)
    IN  /\ store_projects' = after.projects
        /\ store_tasks' = after.tasks
        /\ outcome' = StorageReturned("delete_project", project_id,
                            delete_project_returns(store, project_id, ok))
        /\ UNCHANGED <<active_projects, run, budget>>

NextStorage ==
    \/ \E project \in SavedProjects, ok \in SaveOutcomes : SaveProject(project, ok)
    \/ \E task \in SavedTasks, ok \in SaveOutcomes : SaveTask(task, ok)
    \/ \E project_id \in ProjectIds, ok \in SaveOutcomes :
            DeleteProject(project_id, ok)

\* the storage alone, from the empty database _init_database creates
SpecStorage == Init /\ [][NextStorage]_vars

----------------------------------------------------------------------------
(* OrchestratorStorage.cleanup_old_data *)

\* the lengths of January, February and March 2025
MonthLengths == <<31, 28, 31>>

\* a date; its ISO text orders as (month, day) within the year.  Every
\* instant here has the same time of day.
Date(month, day) == [month |-> month, day |-> day]

\* the days on which cleanup_old_data is called: every day of March
Todays == { Date(3, day) : day \in 1..MonthLengths[3] }

\* the values of days_old: none, a day, a week, the default, and a month
DaysOld == {0, 1, 7, 30, 31}

\* the values of updated_at of the stored projects
UpdatedAts == { Date(1, 20), Date(2, 27), Date(3, 10) }

\* "updated_at < ?": the comparison of two ISO texts
IsoBefore(a, b) == a.month < b.month \/ (a.month = b.month /\ a.day < b.day)

\* datetime.replace(day=day): ValueError for a day the month does not have
replace_day(date, day) ==
    IF day < 1 \/ day > MonthLengths[date.month]
    THEN [raises |-> TRUE]
    ELSE [raises |-> FALSE, date |-> Date(date.month, day)]

\* the ids of "SELECT id FROM projects WHERE status IN ('completed', 'failed')
\* AND updated_at < ?"
OldProjectIds(projects, cutoff) ==
    { id \in DOMAIN projects :
        /\ projects[id].status \in {COMPLETED, FAILED}
        /\ IsoBefore(projects[id].updated_at, cutoff) }

\* cleanup_old_data(days_old) called on the day today: the tables after it
\* and what it returns.  The except branch (replace raised, or ok = FALSE:
\* the database failed) returns 0 with nothing committed.
cleanup_old_data(store, today, days_old, ok) ==
    LET cutoff == replace_day(today, today.day - days_old)
    IN  IF cutoff.raises \/ ~ok
        THEN [projects |-> store.projects, tasks |-> store.tasks, returned |-> 0]
        ELSE LET project_ids == OldProjectIds(store.projects, cutoff.date)
             IN  [projects |-> Restrict(store.projects,
                                        DOMAIN store.projects \ project_ids),
                  tasks |-> Restrict(store.tasks,
                                { t \in DOMAIN store.tasks :
                                    store.tasks[t].project_id \notin project_ids }),
                  returned |-> Cardinality(project_ids)]

\* a stored project with this status, last updated on this date
AgedProject(id, status, updated_at) ==
    [ProjectInfo(id, "demo", "api", "java", <<"/", "t">>, NoSpecFile) EXCEPT
        !.status = status, !.created_at = Date(1, 1), !.updated_at = updated_at]

\* the first task of a project, completed
AgedTask(id) ==
    LET task == AgentTask(ProjectInfo(id, "demo", "api", "java", <<"/", "t">>,
                                      NoSpecFile), CreateStructure, 1)
    IN  TaskCompleted(task, SimulatedResult(task))

\* the database before the cleanup: each id has no project, or a project of
\* any status and age with one task
InitCleanup ==
    /\ \E ids \in SUBSET ProjectIds :
        \E status \in [ids -> TaskStatus], updated_at \in [ids -> UpdatedAts] :
            /\ store_projects =
                    [id \in ids |->
                        ProjectRow(AgedProject(id, status[id], updated_at[id]))]
            /\ store_tasks =
                    [t \in { TaskId(id, 1) : id \in ids } |-> TaskRow(AgedTask(t[1]))]
    /\ active_projects = <<>>
    /\ run = [p \in ProjectIds |-> IdleRun]
    /\ outcome = [p \in ProjectIds |-> NoOutcome]
    /\ budget = 0

CleanupOldData(today, days_old, ok) ==
    LET after == cleanup_old_data([projects |-> store_projects,
                                   tasks |-> store_tasks], today, days_old, ok)
    IN  /\ store_projects' = after.projects
        /\ store_tasks' = after.tasks
        /\ outcome' = [p \in ProjectIds |->
                        [kind |-> "cleanup_old_data", value |-> after.returned]]
        /\ UNCHANGED <<active_projects, run, budget>>

NextCleanup ==
    \E today \in Todays, days_old \in DaysOld, ok \in SaveOutcomes :
        CleanupOldData(today, days_old, ok)

SpecCleanup == InitCleanup /\ [][NextCleanup]_vars

----------------------------------------------------------------------------
(* Properties *)

Terminal(status) == status \in {COMPLETED, FAILED}

\* a step of create_new_project that gives id p (to a new project)
CreatesProject(p) ==
    \E a \in CreateArgs, ok \in SaveOutcomes :
        create_new_project(p, a.name, a.type, a.language, a.output_path,
                           a.api_spec_file, ok)

\* a status change the lifecycle allows: none, or forward from a state that
\* is not terminal
Forward(old, new) ==
    \/ old = new
    \/ old = PENDING /\ new \in {IN_PROGRESS, COMPLETED, FAILED}
    \/ old = IN_PROGRESS /\ new \in {COMPLETED, FAILED}

\* the steps of the call for project p have ended and a task of its plan failed
FailedInTask(p) ==
    /\ run[p].pc = "idle"
    /\ \E i \in DOMAIN run[p].tasks : run[p].tasks[i].status = FAILED

\* C1: the status of a project, in memory and in the store, only moves
\* forward (Pending, InProgress, then Completed or Failed) and never changes
\* once it is Completed or Failed, whatever calls follow.
C1_StatusOnlyMovesForward ==
    [][\A p \in ProjectIds :
        ~CreatesProject(p) =>
            /\ (p \in DOMAIN active_projects /\ p \in DOMAIN active_projects')
                    => Forward(active_projects[p].status, active_projects'[p].status)
            /\ (p \in DOMAIN store_projects /\ p \in DOMAIN store_projects')
                    => Forward(store_projects[p].status, store_projects'[p].status)
      ]_vars

\* C2: in a call, once a task has failed no later task of the plan is
\* started or handed to save_task, the call is over, and the project is
\* Failed.
C2_StopsAtFirstFailure ==
    \A p \in ProjectIds :
        \A i \in DOMAIN run[p].tasks :
            run[p].tasks[i].status = FAILED =>
                /\ \A j \in DOMAIN run[p].tasks :
                        j > i => /\ run[p].tasks[j].status = PENDING
                                 /\ run[p].saves[j] = 0
                /\ run[p].pc = "idle"
                /\ active_projects[p].status = FAILED

\* C2: a call ended with a failed task that has a task after it in the plan
C2_Witness ==
    \E p \in ProjectIds :
        /\ FailedInTask(p)
        /\ \E i \in DOMAIN run[p].tasks :
                /\ run[p].tasks[i].status = FAILED
                /\ i < Len(run[p].tasks)
                /\ i > 1

\* C3: a project stored as Completed has only Completed tasks in the store.
C3_CompletedProjectHasCompletedTasks ==
    \A p \in DOMAIN store_projects :
        store_projects[p].status = COMPLETED =>
            \A row \in load_project_tasks(store_tasks, p) : row.status = COMPLETED

\* C4: a call that failed inside a task returns a report with status failed;
\* only a call that failed before its first task raises.
C4_TaskFailureReturnsReport ==
    \A p \in ProjectIds :
        /\ FailedInTask(p) =>
                /\ outcome[p].kind = "returned"
                /\ outcome[p].project_id = p
                /\ outcome[p].status = FAILED
                /\ outcome[p].total_tasks = Len(run[p].tasks)
        /\ (run[p].pc = "idle" /\ outcome[p].kind = "raised") =>
                run[p].tasks = <<>>

\* C5: a call that ended Completed returned a report with tasks_completed =
\* total_tasks; after a call that ended Failed fewer tasks are Completed than
\* were planned, and the first task that is not Completed has an error_message.
C5_ReportCounts ==
    \A p \in DOMAIN active_projects :
        (run[p].pc = "idle" /\ outcome[p] # NoOutcome) =>
            /\ active_projects[p].status = COMPLETED =>
                    /\ outcome[p].kind = "returned"
                    /\ outcome[p].tasks_completed = outcome[p].total_tasks
            /\ active_projects[p].status = FAILED =>
                    /\ CountCompleted(run[p].tasks) < Len(run[p].tasks)
                    /\ \E i \in DOMAIN run[p].tasks :
                            /\ run[p].tasks[i].status # COMPLETED
                            /\ \A j \in 1..(i - 1) : run[p].tasks[j].status = COMPLETED
                            /\ run[p].tasks[i].error_message # NoError

\* C6: every task row in the store is Completed or Failed, and a call hands
\* each task of its plan to save_task at most once, in a terminal state.
C6_TasksStoredOnceTerminal ==
    /\ \A t \in DOMAIN store_tasks : Terminal(store_tasks[t].status)
    /\ \A p \in ProjectIds :
            \A i \in DOMAIN run[p].tasks :
                /\ run[p].saves[i] <= 1
                /\ run[p].saves[i] = 1 <=> Terminal(run[p].tasks[i].status)

\* C6: the store holds a Completed and a Failed task of one project
C6_Witness ==
    \E p \in ProjectIds :
        /\ TaskId(p, 1) \in DOMAIN store_tasks
        /\ TaskId(p, 2) \in DOMAIN store_tasks
        /\ store_tasks[TaskId(p, 1)].status = COMPLETED
        /\ store_tasks[TaskId(p, 2)].status = FAILED

Operations == {"parse_api_specification", "create_project_structure",
               "generate_tests", "setup_environment", "create_docker_setup",
               "another_operation"}

\* C8: when the worker of a task raises, the task is Completed with the
\* simulated result of its agent type and operation (a mapping with the
\* operation and the status "completed"), and the call goes on to the next
\* task of the plan.
C8_WorkerFailureFallsBack ==
    /\ \A p \in ProjectIds :
            \A i \in run[p].fallbacks :
                /\ run[p].tasks[i].status = COMPLETED
                /\ run[p].tasks[i].result = SimulatedResult(run[p].tasks[i])
                /\ run[p].tasks[i].result.operation = run[p].tasks[i].operation
                /\ run[p].tasks[i].result.status = "completed"
                /\ run[p].results[i] = run[p].tasks[i].result
                /\ run[p].idx > i
    /\ \A a \in available_agents, o \in Operations :
            LET stub == SimulatedResult([agent_type |-> a, operation |-> o,
                            parameters |-> [output_path |-> OrchestratorRoot,
                                            language |-> "java",
                                            project_type |-> "api"]])
            IN  stub.operation = o /\ stub.status = "completed"

\* C8: a call in which the workers of a parser, an api and a devops task all
\* raised has returned
C8_Witness ==
    \E p \in ProjectIds :
        /\ run[p].fallbacks = {1, 2, 3}
        /\ { run[p].tasks[i].agent_type : i \in 1..3 } = available_agents
        /\ run[p].pc = "idle"
        /\ outcome[p].kind = "returned"
        /\ outcome[p].status = COMPLETED

\* C9: when a task names an agent type without a worker, the call raises and
\* the store holds for the project exactly what it held when the call began.
C9_UnknownAgentPersistsNothing ==
    [][\A p \in ProjectIds, okT \in SaveOutcomes, okP \in SaveOutcomes :
        UnknownAgentTask(p, okT, okP) =>
            /\ outcome'[p].kind = "raised"
            /\ StoredOf(store_projects', store_tasks', p) = run[p].before
      ]_vars

\* output_path is the orchestrator's directory or lies under it
InsideOrchestrator(output_path) ==
    \/ output_path = OrchestratorRoot
    \/ StartsWith(output_path, OrchestratorRoot \o <<"/">>)

\* C10: create_new_project with an output_path at or under the orchestrator's
\* directory fails before any write: no such project is known or stored.
C10_NoProjectInsideOrchestrator ==
    /\ \A p \in DOMAIN active_projects :
            ~InsideOrchestrator(active_projects[p].output_path)
    /\ \A p \in DOMAIN store_projects :
            ~InsideOrchestrator(store_projects[p].output_path)

\* C11: when create_new_project returns, the store holds a row for the new
\* id with status Pending and the name, type, language, output_path and
\* metadata of the call.
C11_CreatePersistsPending ==
    [][\A id \in ProjectIds, a \in CreateArgs, ok \in SaveOutcomes :
        create_new_project(id, a.name, a.type, a.language, a.output_path,
                           a.api_spec_file, ok) =>
            /\ id \in DOMAIN store_projects'
            /\ store_projects'[id].status = PENDING
            /\ store_projects'[id].name = a.name
            /\ store_projects'[id].type = a.type
            /\ store_projects'[id].language = a.language
            /\ store_projects'[id].output_path = a.output_path
            /\ LoadMetadataColumn(store_projects'[id].metadata)
                    = [api_spec_file |-> a.api_spec_file]
      ]_vars

\* C12: while a call of execute_project_creation is under way (from its first
\* step until it writes the final status), the stored status of its project
\* is InProgress.
C12_StoredInProgressDuringRun ==
    \A p \in ProjectIds :
        (run[p].pc # "idle" /\ p \in DOMAIN store_projects) =>
            store_projects[p].status = IN_PROGRESS

\* the parsed_data of the last parser task before task i that returned some,
\* or none
LastParsed(tasks, i) ==
    LET js == { j \in 1..(i - 1) :
                    /\ tasks[j].agent_type = "parser_agent"
                    /\ tasks[j].result.parsed_data # NoParsedData }
    IN  IF js = {} THEN NoParsedData
        ELSE tasks[CHOOSE j \in js : \A k \in js : k <= j].result.parsed_data

\* C13: every task handed to a worker carries, under the key parsed_data, the
\* parsed_data of the most recent parser task before it that returned some,
\* whatever its own agent type; with no such task before it, it carries none.
C13_ParsedDataReachesLaterTasks ==
    \A p \in ProjectIds :
        \A i \in DOMAIN run[p].tasks :
            LET task == run[p].tasks[i]
            IN  (task.status # PENDING /\ Dispatchable(task.agent_type)) =>
                    task.parameters.parsed_data = LastParsed(run[p].tasks, i)

\* the call for project p has its plan
Planned(p) == run[p].pc \in {"loop", "worker"}

AgentTypes(tasks) == [i \in DOMAIN tasks |-> tasks[i].agent_type]

\* the dependencies of every task are operations of tasks before it
DependenciesEarlier(tasks) ==
    \A i \in DOMAIN tasks :
        \A d \in DOMAIN tasks[i].parameters.dependencies :
            \E j \in 1..(i - 1) :
                tasks[j].operation = tasks[i].parameters.dependencies[d]

\* C14: every plan ends with a devops_agent task; for a project with an API
\* specification it is a parser, an api and a devops task in that order, with
\* dependencies on earlier tasks only; without one it is an api and a devops
\* task.
C14_PlanShape ==
    \A p \in ProjectIds :
        Planned(p) =>
            LET tasks == run[p].tasks
            IN  /\ tasks # <<>>
                /\ tasks[Len(tasks)].agent_type = "devops_agent"
                /\ IF active_projects[p].metadata.api_spec_file # NoSpecFile
                   THEN /\ AgentTypes(tasks)
                            = <<"parser_agent", "api_agent", "devops_agent">>
                        /\ DependenciesEarlier(tasks)
                   ELSE AgentTypes(tasks) = <<"api_agent", "devops_agent">>

\* the ordered (agent_type, operation) pairs of a plan
PlanPairs(tasks) ==
    [i \in DOMAIN tasks |-> <<tasks[i].agent_type, tasks[i].operation>>]

SameProjectState(p, q) ==
    /\ active_projects[p].type = active_projects[q].type
    /\ active_projects[p].language = active_projects[q].language
    /\ active_projects[p].metadata = active_projects[q].metadata

\* two plannings of projects in the same state give the same sequence
SamePlans ==
    \A p, q \in ProjectIds :
        (Planned(p) /\ Planned(q) /\ SameProjectState(p, q)) =>
            PlanPairs(run[p].tasks) = PlanPairs(run[q].tasks)

\* C15: planning is deterministic (the same project state gives the same
\* ordered agent types and operations) and writes nothing to the store.
C15_PlanningDeterministicAndPure ==
    /\ []SamePlans
    /\ [][\A p \in ProjectIds, task_sequence \in Plans :
            AnalysisReturns(p, task_sequence) =>
                UNCHANGED <<store_projects, store_tasks>>
         ]_vars

\* a metadata mapping that holds nothing JSON has no form of its own for
JsonExact(d) == IF Falsy(d) THEN TRUE ELSE \A k \in DOMAIN d : d[k] # PyTuple

\* the last call was a save_project that returned True, and project is what
\* it may have been called with: it has the id and wrote the row now stored
JustSaved(project) ==
    /\ outcome[project.id] = [kind |-> "save_project", value |-> TRUE]
    /\ project.id \in DOMAIN store_projects
    /\ store_projects[project.id] = ProjectRow(project)

\* C16 as stated: load_project after a successful save_project gives back the
\* project that was saved, equal in every field, for every type, language,
\* status and metadata mapping.
C16_RoundTripAnyMetadata ==
    \A project \in SavedProjects :
        JustSaved(project) => load_project(store_projects, project.id) = project

\* C16, amended: load_project after a successful save_project gives back the
\* project that was saved, equal in every field, for every type, language and
\* status and every metadata mapping whose values JSON represents exactly (the
\* empty mapping included); a tuple in the metadata comes back as a list.
C16_RoundTripJsonMetadata ==
    \A project \in SavedProjects :
        JustSaved(project) =>
            LET loaded == load_project(store_projects, project.id)
            IN  /\ JsonExact(project.metadata) => loaded = project
                /\ ~JsonExact(project.metadata) =>
                        loaded = [project EXCEPT !.metadata = [tags |-> PyList]]

\* C16: the last call saved a Failed project with the empty metadata mapping,
\* and load_project gives it back
C16_Witness ==
    /\ outcome["p1"] = [kind |-> "save_project", value |-> TRUE]
    /\ load_project(store_projects, "p1") \in SavedProjects
    /\ load_project(store_projects, "p1").status = FAILED
    /\ load_project(store_projects, "p1").metadata = EmptyDict

\* C17: save_project is an idempotent upsert by id: whatever the store holds,
\* saving a project leaves one row for its id, the row of that project, and
\* every other row as it was; the number of rows grows by one when the id is
\* new and not at all when it is stored already; saving the same project
\* again changes nothing.
C17_SaveProjectIdempotentUpsert ==
    \A project \in SavedProjects :
        LET once == save_project(store_projects, project, TRUE)
            twice == save_project(once, project, TRUE)
        IN  /\ twice = once
            /\ once[project.id] = ProjectRow(project)
            /\ DOMAIN once = DOMAIN store_projects \cup {project.id}
            /\ Cardinality(DOMAIN once) =
                    IF project.id \in DOMAIN store_projects
                    THEN Cardinality(DOMAIN store_projects)
                    ELSE Cardinality(DOMAIN store_projects) + 1
            /\ \A id \in DOMAIN store_projects \ {project.id} :
                    once[id] = store_projects[id]

\* C17: the store holds two projects and the last call saved the first of
\* them, as Completed, over the row it had
C17_Witness ==
    /\ DOMAIN store_projects = {"p1", "p2"}
    /\ outcome["p1"] = [kind |-> "save_project", value |-> TRUE]
    /\ store_projects["p1"].status = COMPLETED
    /\ store_projects["p1"].metadata = NULL

\* C18: delete_project of an id that is not stored leaves the store as it is
\* and returns False.
C18_DeleteOfUnknownIdReturnsFalse ==
    [][\A project_id \in ProjectIds, ok \in SaveOutcomes :
        (project_id \notin DOMAIN store_projects /\ DeleteProject(project_id, ok)) =>
            /\ UNCHANGED <<store_projects, store_tasks>>
            /\ outcome'[project_id] = [kind |-> "delete_project", value |-> FALSE]
      ]_vars

\* C19: after a delete_project that succeeded, load_project finds no project
\* of that id and load_project_tasks no task of it, and what the store holds
\* for every other project id is as it was.
C19_DeleteCascadesAndFrames ==
    [][\A project_id \in ProjectIds :
        DeleteProject(project_id, TRUE) =>
            /\ load_project(store_projects', project_id) = NotFound
            /\ load_project_tasks(store_tasks', project_id) = {}
            /\ \A other \in ProjectIds \ {project_id} :
                    StoredOf(store_projects', store_tasks', other)
                        = StoredOf(store_projects, store_tasks, other)
      ]_vars

\* C19: the last call deleted the first project, of which nothing is left;
\* the second project and its task are stored
C19_Witness ==
    /\ outcome["p1"] = [kind |-> "delete_project", value |-> TRUE]
    /\ StoredOf(store_projects, store_tasks, "p1") = NoSnapshot
    /\ "p2" \in DOMAIN store_projects
    /\ load_project_tasks(store_tasks, "p2") # {}

\* C20: save_project and save_task return True or False to their caller;
\* whatever the store holds, a save that fails leaves every row as it was, and
\* a save that succeeds leaves the whole row of what was saved, with nothing of
\* the row it replaced.
C20_SavesAreAtomic ==
    /\ \A id \in ProjectIds :
            outcome[id] # NoOutcome => outcome[id].value \in BOOLEAN
    /\ \A project \in SavedProjects :
            /\ save_project(store_projects, project, FALSE) = store_projects
            /\ save_project(store_projects, project, TRUE)[project.id]
                    = ProjectRow(project)
    /\ \A task \in SavedTasks :
            /\ save_task(store_tasks, task, FALSE) = store_tasks
            /\ save_task(store_tasks, task, TRUE)[task.id] = TaskRow(task)

\* C20: the last call was a save_task that failed, for a task that is stored
\* as Completed (the call was given it as Failed or as Completed)
C20_Witness ==
    /\ outcome["p1"] = [kind |-> "save_task", value |-> FALSE]
    /\ TaskId("p1", 1) \in DOMAIN store_tasks
    /\ store_tasks[TaskId("p1", 1)].status = COMPLETED
    /\ "p1" \in DOMAIN store_projects

\* the call for project p has ended
Ended(p) == run[p].pc = "idle" /\ outcome[p] # NoOutcome

\* two calls were made, and no write failed
OneCallEach == budget = MaxInterleavedEvents - 2

\* what one call for project p, on its own and with every write committing,
\* leaves in the store: the row of the project as the call left it and the
\* rows of the tasks it took, as execute_task left them
StoredByRunAlone(p) ==
    [project |-> <<ProjectRow(active_projects[p])>>,
     tasks |-> { TaskRow(run[p].tasks[i]) :
                    i \in { j \in DOMAIN run[p].tasks :
                                Terminal(run[p].tasks[j].status) } }]

\* C21: when the calls for two different projects interleave at their awaits
\* in any order, the store holds for each project, after both calls (one for
\* each project, every write committing), what the call for that project
\* alone leaves (the project as its own call left it and
\* exactly the tasks its own call took); and no step of one call changes the
\* stored records, the project object, the locals or the outcome of the other.
C21_InterleavedRunsDoNotInterfere ==
    /\ [](\A p, q \in ProjectIds :
            (p # q /\ Ended(p) /\ Ended(q) /\ OneCallEach) =>
                /\ StoredOf(store_projects, store_tasks, p) = StoredByRunAlone(p)
                /\ active_projects[p].status =
                        IF outcome[p].kind = "returned" THEN COMPLETED ELSE FAILED)
    /\ [][\A q \in ProjectIds :
            run'[q] = run[q] =>
                /\ StoredOf(store_projects', store_tasks', q)
                        = StoredOf(store_projects, store_tasks, q)
                /\ active_projects'[q] = active_projects[q]
                /\ outcome'[q] = outcome[q]
         ]_vars

\* C21: the calls for both projects have ended, one with two tasks stored
\* and one with three
C21_Witness ==
    /\ Ended("p1") /\ Ended("p2")
    /\ outcome["p1"].kind = "returned" /\ outcome["p2"].kind = "returned"
    /\ Cardinality(load_project_tasks(store_tasks, "p1")) = 2
    /\ Cardinality(load_project_tasks(store_tasks, "p2")) = 3
    /\ store_projects["p1"].status = COMPLETED
    /\ store_projects["p2"].status = COMPLETED

\* C22: get_project_status of an id that is not in active_projects returns
\* None (it does not raise), and the call changes nothing: not the projects in
\* memory, not the store, not a call under way.
C22_StatusOfUnknownIdIsNone ==
    /\ [](\A project_id \in QueriedIds :
            project_id \notin DOMAIN active_projects =>
                get_project_status(active_projects, store_tasks, project_id)
                    = NotFound)
    /\ [][\A project_id \in QueriedIds :
            GetProjectStatus(project_id) => UNCHANGED vars]_vars

\* C22: one project is known and has a stored task, a call for it is under
\* way, and get_project_status of the other id returns None
C22_Witness ==
    /\ DOMAIN active_projects = {"p1"}
    /\ run["p1"].pc = "worker"
    /\ load_project_tasks(store_tasks, "p1") # {}
    /\ get_project_status(active_projects, store_tasks, "p1").found
    /\ get_project_status(active_projects, store_tasks, "p2") = NotFound

\* the sum of the counts of a dict
RECURSIVE SumCounts(_)
SumCounts(counts) ==
    IF DOMAIN counts = {} THEN 0
    ELSE LET k == CHOOSE x \in DOMAIN counts : TRUE
         IN  counts[k] + SumCounts(Restrict(counts, DOMAIN counts \ {k}))

\* one create_new_project and one call for project p, which returned
\* Completed, were made, and no write failed
CreatedAndRunOnce(p) ==
    /\ DOMAIN active_projects = {p}
    /\ Ended(p)
    /\ outcome[p].kind = "returned"
    /\ outcome[p].status = COMPLETED
    /\ budget = MaxEvents - 2

C24_PlanningFailurePropagates ==
    [][\A p \in ProjectIds, error \in PlanningErrors, okP \in SaveOutcomes :
        AnalysisRaises(p, error, okP) =>
            /\ outcome'[p] = Raised(error)
            /\ run'[p].pc = "idle"
            /\ active_projects'[p].status = FAILED
            /\ store_projects' =
                    save_project(store_projects,
                        [active_projects[p] EXCEPT !.status = FAILED,
                                                   !.updated_at = LaterAt], okP)
            /\ okP => /\ p \in DOMAIN store_projects'
                      /\ store_projects'[p].status = FAILED
            /\ run'[p].tasks = <<>>
            /\ store_tasks' = store_tasks
      ]_vars

\* C24: the planning of a call raised KeyError; the project is stored Failed
\* and has no task in the store
C24_Witness ==
    \E p \in DOMAIN store_projects :
        /\ Ended(p)
        /\ outcome[p] = Raised(PlanError)
        /\ run[p].tasks = <<>>
        /\ active_projects[p].status = FAILED
        /\ store_projects[p].status = FAILED
        /\ load_project_tasks(store_tasks, p) = {}

\* every call that was begun ends
RunsEnd == \A p \in ProjectIds : (run[p].pc # "idle") ~> Ended(p)

\* after a call the project object is Completed if the call returned, and
\* then every task of the plan is Completed; it is Failed if the call raised,
\* and then the planning raised or a task of the plan is Failed
FinalStatusInMemory ==
    \A p \in ProjectIds :
        Ended(p) =>
            /\ outcome[p].kind \in {"returned", "raised"}
            /\ outcome[p].kind = "returned" =>
                    /\ active_projects[p].status = COMPLETED
                    /\ \A i \in DOMAIN run[p].tasks :
                            run[p].tasks[i].status = COMPLETED
            /\ outcome[p].kind = "raised" =>
                    /\ active_projects[p].status = FAILED
                    /\ \/ run[p].tasks = <<>>
                       \/ \E i \in DOMAIN run[p].tasks :
                            run[p].tasks[i].status = FAILED

\* after a call the stored status of the project is its final status
FinalStatusStored ==
    \A p \in ProjectIds :
        Ended(p) =>
            /\ p \in DOMAIN store_projects
            /\ store_projects[p].status = active_projects[p].status
            /\ store_projects[p].status # IN_PROGRESS

\* C25: every call that was begun ends (every awaited call returning or
\* raising); it leaves the project Completed if every task of the plan
\* succeeded and Failed otherwise, never InProgress, and that status is in the
\* store.
C25_RunsEndWithStoredStatus ==
    /\ RunsEnd
    /\ []FinalStatusInMemory
    /\ []FinalStatusStored

\* the rows of the tasks the latest call for project p handed to execute_task
DispatchedRows(p) ==
    { TaskRow(run[p].tasks[i]) :
        i \in { j \in DOMAIN run[p].tasks : run[p].tasks[j].status # PENDING } }

\* C26: after a call, also one that follows an earlier call for the same
\* project with a plan of another length, every task row stored for the
\* project is the row of a task the latest call dispatched (no row of an
\* earlier call is left), and every row is stored under its own id, once.
C26_StoredTasksAreLatestRun ==
    /\ \A t \in DOMAIN store_tasks : store_tasks[t].id = t
    /\ \A p \in ProjectIds :
            Ended(p) => load_project_tasks(store_tasks, p) \subseteq DispatchedRows(p)

\* C27: every task row in the store has the project_id of a project row in
\* the store, in every state: also during and after a call for a project whose
\* save in create_new_project failed, and when delete_project removes the
\* project between two tasks of its call.
C27_StoredTasksHaveStoredProject ==
    \A t \in DOMAIN store_tasks :
        store_tasks[t].project_id \in DOMAIN store_projects

\* the tasks of a plan that have been dispatched
Dispatched(tasks) == { i \in DOMAIN tasks : tasks[i].status # PENDING }

TaskFieldsAgree(status, result, error_message, completed_at) ==
    /\ error_message # NoError => status = FAILED
    /\ result # EmptyResult => status = COMPLETED
    /\ ~(error_message # NoError /\ result # EmptyResult)
    /\ completed_at # NoTime => Terminal(status)

\* C29: for every task, as an object of a call and as a row of the store, in
\* every state: error_message is set only if the status is Failed, a result
\* that is not empty is present only if the status is Completed (so never
\* both), and completed_at is set only if the status is Completed or Failed.
C29_TaskFieldsAgree ==
    /\ \A p \in ProjectIds :
            \A i \in DOMAIN run[p].tasks :
                LET task == run[p].tasks[i]
                IN  TaskFieldsAgree(task.status, task.result, task.error_message,
                                    task.completed_at)
    /\ \A t \in DOMAIN store_tasks :
            LET row == store_tasks[t]
            IN  TaskFieldsAgree(row.status, LoadResultColumn(row.result),
                                row.error_message, row.completed_at)

\* C29: a call ended with its first task Completed (a result, completed_at,
\* no error_message) and its second Failed (an error_message, no result, no
\* completed_at), and both are stored
C29_Witness ==
    \E p \in ProjectIds :
        /\ Ended(p)
        /\ Len(run[p].tasks) >= 2
        /\ run[p].tasks[1].status = COMPLETED
        /\ run[p].tasks[1].result # EmptyResult
        /\ run[p].tasks[1].completed_at = LaterAt
        /\ run[p].tasks[1].error_message = NoError
        /\ run[p].tasks[2].status = FAILED
        /\ run[p].tasks[2].error_message # NoError
        /\ run[p].tasks[2].result = EmptyResult
        /\ run[p].tasks[2].completed_at = NoTime
        /\ { TaskRow(run[p].tasks[1]), TaskRow(run[p].tasks[2]) }
                \subseteq load_project_tasks(store_tasks, p)

\* the fields of a project other than status and updated_at
FrameFields(project) ==
    [id |-> project.id, name |-> project.name, type |-> project.type,
     language |-> project.language, output_path |-> project.output_path,
     created_at |-> project.created_at, metadata |-> project.metadata]

\* no step of a call changes a field of its project other than status and
\* updated_at
RunKeepsProjectFields ==
    [][\A p \in DOMAIN active_projects :
        ~CreatesProject(p) =>
            /\ p \in DOMAIN active_projects'
            /\ FrameFields(active_projects'[p]) = FrameFields(active_projects[p])
      ]_vars

\* a step that changes the status of a project whose updated_at is still the
\* time of its creation gives it another updated_at
StatusChangeTouchesUpdatedAt ==
    [][\A p \in DOMAIN active_projects :
        (/\ ~CreatesProject(p)
         /\ active_projects'[p].status # active_projects[p].status
         /\ active_projects[p].updated_at = CreatedAt) =>
            active_projects'[p].updated_at # CreatedAt
      ]_vars

\* C30: every change of a project's status by a call (Pending to InProgress,
\* InProgress to Completed or to Failed) changes its updated_at, and a call
\* changes no other field of the project: id, name, type, language,
\* output_path, created_at and metadata stay as they were.
C30_TransitionsTouchUpdatedAt ==
    /\ StatusChangeTouchesUpdatedAt
    /\ RunKeepsProjectFields

\* no call of execute_project_creation is under way
NoRunUnderWay == \A p \in ProjectIds : run[p].pc = "idle"

\* C31: after any sequence of create_new_project, execute_project_creation
\* and delete_project calls (none under way), the orchestrator knows exactly
\* the stored projects: list_projects returns the projects load_all_projects
\* returns, and get_project_status(id) reports a project if and only if
\* load_project(id) finds one, and then with the stored status.
C31_MemoryAgreesWithStore ==
    NoRunUnderWay =>
        /\ { project.id : project \in list_projects(active_projects) }
                = { project.id : project \in load_all_projects(store_projects) }
        /\ \A id \in QueriedIds :
                LET status == get_project_status(active_projects, store_tasks, id)
                    loaded == load_project(store_projects, id)
                IN  /\ status.found <=> loaded # NotFound
                    /\ status.found => status.project.status = loaded.status

\* C32: the id create_new_project gives a project is the id of no project
\* known in memory or stored, so the call replaces no entry of
\* active_projects and no row of the store: every project known or stored
\* before the call is there after it, as it was.
C32_CreateAllocatesFreshId ==
    [][\A id \in ProjectIds :
        CreatesProject(id) =>
            /\ id \notin DOMAIN active_projects
            /\ id \notin DOMAIN store_projects
            /\ \A p \in DOMAIN active_projects :
                    /\ p \in DOMAIN active_projects'
                    /\ active_projects'[p] = active_projects[p]
            /\ \A p \in DOMAIN store_projects :
                    /\ p \in DOMAIN store_projects'
                    /\ store_projects'[p] = store_projects[p]
      ]_vars

\* the number of days from the start of the year to the start of the month
RECURSIVE DaysBeforeMonth(_)
DaysBeforeMonth(month) ==
    IF month = 1 THEN 0 ELSE MonthLengths[month - 1] + DaysBeforeMonth(month - 1)

\* the number of the day in the year
Ordinal(date) == DaysBeforeMonth(date.month) + date.day

\* the Completed and Failed projects updated more than days_old days before
\* today
ExpiredProjectIds(projects, today, days_old) ==
    { id \in DOMAIN projects :
        /\ projects[id].status \in {COMPLETED, FAILED}
        /\ Ordinal(today) - Ordinal(projects[id].updated_at) > days_old }

\* cleanup_old_data never deletes a Pending or InProgress project, and
\* deletes the tasks of the projects it deletes and of no other project
CleanupKeepsUnfinished ==
    [][\A id \in DOMAIN store_projects :
        /\ store_projects[id].status \in {PENDING, IN_PROGRESS} =>
                /\ id \in DOMAIN store_projects'
                /\ store_projects'[id] = store_projects[id]
        /\ id \in DOMAIN store_projects' <=> TaskId(id, 1) \in DOMAIN store_tasks'
      ]_vars

\* a cleanup whose cutoff day exists in the month of the call does what is
\* asked
CleanupWithinMonth ==
    [][\A today \in Todays, days_old \in DaysOld :
        (CleanupOldData(today, days_old, TRUE) /\ today.day - days_old >= 1) =>
            LET expired == ExpiredProjectIds(store_projects, today, days_old)
            IN  /\ DOMAIN store_projects' = DOMAIN store_projects \ expired
                /\ outcome'["p1"].value = Cardinality(expired)
      ]_vars

\* C33: cleanup_old_data(days_old), on every day of the month and for every
\* days_old >= 0, deletes exactly the Completed and Failed projects whose
\* updated_at is more than days_old days before the call, with all their
\* tasks, returns their number, and leaves every Pending and InProgress
\* project.
C33_CleanupDeletesExpired ==
    [][\A today \in Todays, days_old \in DaysOld :
        CleanupOldData(today, days_old, TRUE) =>
            LET expired == ExpiredProjectIds(store_projects, today, days_old)
            IN  /\ store_projects' =
                        Restrict(store_projects, DOMAIN store_projects \ expired)
                /\ store_tasks' =
                        Restrict(store_tasks,
                            { t \in DOMAIN store_tasks :
                                store_tasks[t].project_id \notin expired })
                /\ outcome'["p1"].value = Cardinality(expired)
      ]_vars

====
